---- MODULE Spec2Model ----
(***************************************************************************)
(* Power-law regression engine of the Kaspa analytics dashboard            *)
(* (src/pages/power_law.py): the four fitting branches of                  *)
(* calculate_advanced_power_law, calculate_basic_power_law, and the page   *)
(* functions that call them.                                               *)
(*                                                                         *)
(* Numbers.  A numpy float is modelled as an extended rational <<n, d>>:   *)
(* d > 0 is the rational n/d in lowest terms, <<1,0>> is +inf, <<-1,0>> is  *)
(* -inf and <<0,0>> is NaN.  Arithmetic follows IEEE-754 as numpy applies   *)
(* it: division by zero and invalid operations give inf/NaN (a             *)
(* RuntimeWarning), never an exception.  Rounding error and the sign of    *)
(* zero are not modelled.  np.log / np.exp are modelled by the piecewise   *)
(* linear pair Ln / Exp (exact on powers of two), see below.               *)
(***************************************************************************)
EXTENDS Integers, Sequences, FiniteSets, TLC

\* df:  the price column of the data frame the engine is called on.
\* ret: what the last call returned to (or rendered for) its caller.
VARIABLES df, ret

vars == <<df, ret>>

\* ------------------------------------------------------------ bounds
\* Longest price series the data source returns in the model.
MaxLen == 4

\* ------------------------------------------------------------ numbers
NaN == <<0, 0>>
PInf == <<1, 0>>
NInf == <<-1, 0>>

Abs(i) == IF i < 0 THEN -i ELSE i
Sgn(i) == IF i < 0 THEN -1 ELSE IF i > 0 THEN 1 ELSE 0

RECURSIVE Gcd(_, _)
Gcd(a, b) == IF b = 0 THEN a ELSE Gcd(b, a % b)

\* The float with value n/d (d may be 0: see the header).
Q(n, d) ==
    IF d = 0 THEN <<Sgn(n), 0>>
    ELSE LET g == Gcd(Abs(n), Abs(d))
             s == Sgn(d)
         IN  <<(s * n) \div g, (s * d) \div g>>

Num(i) == <<i, 1>>

IsNaN(a) == a[1] = 0 /\ a[2] = 0
IsInf(a) == a[1] # 0 /\ a[2] = 0
IsFinite(a) == a[2] # 0

Neg(a) == <<-a[1], a[2]>>

\* Products and sums cancel common factors before multiplying, so that the
\* intermediate integers stay small.
Mul(a, b) ==
    IF a[2] = 0 \/ b[2] = 0 THEN <<Sgn(a[1]) * Sgn(b[1]), 0>>
    ELSE LET g1 == Gcd(Abs(a[1]), b[2])
             g2 == Gcd(Abs(b[1]), a[2])
         IN  Q((a[1] \div g1) * (b[1] \div g2), (a[2] \div g2) * (b[2] \div g1))

Add(a, b) ==
    IF IsInf(a) /\ IsInf(b)
    THEN IF a[1] = b[1] THEN a ELSE NaN
    ELSE IF a[2] = 0 \/ b[2] = 0
    THEN Q(a[1] * b[2] + b[1] * a[2], 0)
    ELSE LET g == Gcd(a[2], b[2])
         IN  Q(a[1] * (b[2] \div g) + b[1] * (a[2] \div g), (a[2] \div g) * b[2])

Sub(a, b) == Add(a, Neg(b))

\* 1/a: 1/0 = +inf, 1/inf = 0, 1/NaN = NaN.
Recip(a) ==
    IF IsNaN(a) THEN NaN
    ELSE IF a[1] = 0 THEN PInf
    ELSE IF a[2] = 0 THEN Num(0)
    ELSE Q(a[2], a[1])

Div(a, b) == Mul(a, Recip(b))

\* Comparisons: every comparison with NaN is false.
Lt(a, b) ==
    /\ ~IsNaN(a)
    /\ ~IsNaN(b)
    /\ IF IsInf(a) \/ IsInf(b)
       THEN (IF IsInf(a) THEN 2 * a[1] ELSE 0) < (IF IsInf(b) THEN 2 * b[1] ELSE 0)
       ELSE LET g == Gcd(a[2], b[2])
            IN  a[1] * (b[2] \div g) < b[1] * (a[2] \div g)

Gt(a, b) == Lt(b, a)
Eq(a, b) == ~IsNaN(a) /\ ~IsNaN(b) /\ a = b
Le(a, b) == Lt(a, b) \/ Eq(a, b)
Ge(a, b) == Le(b, a)

IntFloor(n, d) == n \div d

RECURSIVE Pow2(_)
Pow2(k) == IF k = 0 THEN 1 ELSE 2 * Pow2(k - 1)

\* 2^k as a float, for any integer k.
Scale2(k) == IF k >= 0 THEN Num(Pow2(k)) ELSE Q(1, Pow2(-k))

\* ln 2, to one decimal.
LN2 == <<7, 10>>

\* The largest k with 2^k <= n/d, for a finite n/d > 0.
RECURSIVE Log2Floor(_, _)
Log2Floor(n, d) ==
    IF n < d THEN Log2Floor(2 * n, d) - 1
    ELSE IF n >= 2 * d THEN Log2Floor(n, 2 * d) + 1
    ELSE 0

\* ln of a = 2^k (1 + f), 0 <= f < 1: ln2 * (k + f).
LnParts(a, k) == Mul(LN2, Add(Num(k - 1), Div(a, Scale2(k))))

\* np.log: -inf at 0, NaN below 0, no exception.
Ln(a) ==
    IF IsNaN(a) THEN NaN
    ELSE IF a = PInf THEN PInf
    ELSE IF a = NInf THEN NaN
    ELSE IF a[1] < 0 THEN NaN
    ELSE IF a[1] = 0 THEN NInf
    ELSE LnParts(a, Log2Floor(a[1], a[2]))

\* exp of ln2 * u, with k = floor(u): 2^k (1 + (u - k)).
ExpParts(u, k) == Mul(Add(Num(1 - k), u), Scale2(k))

ExpScaled(u) == ExpParts(u, IntFloor(u[1], u[2]))

\* np.exp, the inverse of Ln.
Exp(a) ==
    IF IsNaN(a) THEN NaN
    ELSE IF a = PInf THEN PInf
    ELSE IF a = NInf THEN Num(0)
    ELSE ExpScaled(Div(a, LN2))

\* base ** a for an integer base >= 1 and a float exponent (IEEE pow:
\* 1 ** anything is 1).
Pow(base, a) == IF base = 1 THEN Num(1) ELSE Exp(Mul(a, Ln(Num(base))))

\* np.sqrt(x) ** 2: NaN for a negative or NaN x, x otherwise.
SqrtSquared(a) == IF IsNaN(a) \/ Lt(a, Num(0)) THEN NaN ELSE a

\* A float a >= 0 rounded up to the next multiple of 1/64 (an infinity
\* stays).
RoundUp64(a) ==
    IF a[2] = 0 THEN a ELSE Q((a[1] * 64 + a[2] - 1) \div a[2], 64)

\* np.sqrt: the square root with Ln/Exp's rounding, kept to multiples of
\* 1/64; NaN below 0.
Sqrt(a) ==
    IF IsNaN(a) \/ Lt(a, Num(0)) THEN NaN
    ELSE IF a[1] = 0 THEN Num(0)
    ELSE RoundUp64(Exp(Div(Ln(a), Num(2))))

Square(a) == Mul(a, a)

\* ------------------------------------------------------------ arrays
RECURSIVE SumSeq(_)
SumSeq(s) == IF s = <<>> THEN Num(0) ELSE Add(s[1], SumSeq(Tail(s)))

\* np.mean: sum / count (NaN for an empty array).
Mean(s) == Div(SumSeq(s), Num(Len(s)))

\* mean((x - mx) * (y - my))
CovAbout(x, mx, y, my) ==
    Mean([i \in 1..Len(x) |-> Mul(Sub(x[i], mx), Sub(y[i], my))])

\* ------------------------------------------------------------ library fits
\* The end of scipy.stats.linregress: the slope's standard error (0 for
\* two points) and the result.  The p-value is not modelled: the code
\* only prints it.
LinregressResult(n, ssxm, ssym, r2, slope, intercept) ==
    [raised |-> FALSE, slope |-> slope, intercept |-> intercept,
     r_squared |-> r2,
     std_err |-> IF n = 2 THEN Num(0)
                 ELSE Sqrt(Div(Div(Mul(Sub(Num(1), r2), ssym), ssxm), Num(n - 2)))]

\* r is 0 when either variance is 0, and is clipped to [-1, 1]; rr is the
\* square of ssxym / sqrt(ssxm * ssym), so r_value ** 2 is rr clipped to 1.
LinregressClip(n, xmean, ymean, ssxm, ssym, rr, slope) ==
    LinregressResult(n, ssxm, ssym,
        IF Eq(ssxm, Num(0)) \/ Eq(ssym, Num(0)) THEN Num(0)
        ELSE IF Gt(rr, Num(1)) THEN Num(1) ELSE rr,
        slope, Sub(ymean, Mul(slope, xmean)))

LinregressMoments(n, xmean, ymean, ssxm, ssxym, ssym) ==
    LinregressClip(n, xmean, ymean, ssxm, ssym,
        Div(Square(ssxym), Mul(ssxm, ssym)), Div(ssxym, ssxm))

\* ssxm, ssxym, _, ssym = np.cov(x, y, bias=1).flat
LinregressCov(x, xmean, y, ymean) ==
    LinregressMoments(Len(x), xmean, ymean,
        CovAbout(x, xmean, x, xmean), CovAbout(x, xmean, y, ymean),
        CovAbout(y, ymean, y, ymean))

\* scipy.stats.linregress(x, y): raises ValueError on empty input and on
\* identical x values (two or more); NaN or infinite inputs raise nothing
\* and give NaN outputs.
Linregress(x, y) ==
    IF Len(x) = 0 \/ Len(y) = 0 THEN [raised |-> TRUE]
    ELSE IF Len(x) > 1 /\ (\A i \in 1..Len(x) : x[i] = x[1]) THEN [raised |-> TRUE]
    ELSE LinregressCov(x, Mean(x), y, Mean(y))

\* 0^k + 1^k + ... + (n-1)^k, the power sums of the day indices.
RECURSIVE DaySum(_, _)
DaySum(k, n) ==
    IF n = 0 THEN 0
    ELSE DaySum(k, n - 1) +
         (IF k = 0 THEN 1 ELSE IF k = 1 THEN n - 1
          ELSE IF k = 2 THEN (n - 1) * (n - 1)
          ELSE IF k = 3 THEN (n - 1) * (n - 1) * (n - 1)
          ELSE (n - 1) * (n - 1) * (n - 1) * (n - 1))

\* sum of day^k * y[day]
Moment(k, y) ==
    SumSeq([i \in 1..Len(y) |->
              Mul(Num(IF k = 0 THEN 1 ELSE IF k = 1 THEN i - 1 ELSE (i - 1) * (i - 1)), y[i])])

\* (p * T2 + q * T1 + r * T0) / det
PolyRow(p, q, r, T2, T1, T0, det) ==
    Div(Add(Add(Mul(Num(p), T2), Mul(Num(q), T1)), Mul(Num(r), T0)), Num(det))

\* The least-squares solution of the normal equations
\* [[S4,S3,S2],[S3,S2,S1],[S2,S1,S0]] c = [T2,T1,T0], by the adjugate.
PolySolve(S0, S1, S2, S3, S4, T2, T1, T0) ==
    LET a11 == S2 * S0 - S1 * S1
        a12 == S2 * S1 - S3 * S0
        a13 == S3 * S1 - S2 * S2
        a22 == S4 * S0 - S2 * S2
        a23 == S3 * S2 - S4 * S1
        a33 == S4 * S2 - S3 * S3
        det == S4 * a11 + S3 * a12 + S2 * a13
    IN  <<PolyRow(a11, a12, a13, T2, T1, T0, det),
          PolyRow(a12, a22, a23, T2, T1, T0, det),
          PolyRow(a13, a23, a33, T2, T1, T0, det)>>

\* The minimum-norm solution through two points (0, p0), (1, p1).
PolyTwoPoints(h, p0) == <<h, h, p0>>

\* np.polyfit(days, prices, 2) for days = 0..n-1, highest power first.
\* TypeError on an empty vector; LinAlgError (SVD did not converge) when
\* the least-squares input holds a NaN or an infinity, which is also the
\* case of one point (the column scaling divides 0 by 0); two points give
\* the minimum-norm solution (a RankWarning, not an exception); three or
\* more give the least-squares solution.
Polyfit(prices) ==
    IF Len(prices) = 0 THEN [raised |-> TRUE]
    ELSE IF Len(prices) = 1 \/ (\E i \in 1..Len(prices) : ~IsFinite(prices[i]))
    THEN [raised |-> TRUE]
    ELSE IF Len(prices) = 2
    THEN [raised |-> FALSE,
          coeffs |-> PolyTwoPoints(Div(Sub(prices[2], prices[1]), Num(2)), prices[1])]
    ELSE [raised |-> FALSE,
          coeffs |-> PolySolve(DaySum(0, Len(prices)), DaySum(1, Len(prices)),
                               DaySum(2, Len(prices)), DaySum(3, Len(prices)),
                               DaySum(4, Len(prices)),
                               Moment(2, prices), Moment(1, prices), Moment(0, prices))]

\* np.poly1d(coeffs)(x)
PolyVal(c, x) == Add(Add(Mul(c[1], Num(x * x)), Mul(c[2], Num(x))), c[3])

\* ------------------------------------------------------------ the fits
\* The Python value None, and the truth value Python gives a return value
\* ("if not result": None is false, a non-empty dict is true).
None == [kind |-> "None"]
Truthy(v) == v.kind # "None"

\* The if / elif / else chain of calculate_advanced_power_law: the branch
\* a model_type string selects.
Branch(model_type) ==
    IF model_type = "Linear Regression" THEN "LinearLog"
    ELSE IF model_type = "Polynomial" THEN "Polynomial2"
    ELSE IF model_type = "Exponential" THEN "Exponential"
    ELSE "Logarithmic"

\* days, np.log(days + 1) and np.log(prices)
Days(prices) == [i \in 1..Len(prices) |-> Num(i - 1)]
LogDays(prices) == [i \in 1..Len(prices) |-> Ln(Num(i))]
LogPrices(prices) == [i \in 1..Len(prices) |-> Ln(prices[i])]

\* A branch's outcome: the regression's numbers and the trend value.
WithValue(lr, power_law_value) ==
    [raised |-> FALSE, slope |-> lr.slope, intercept |-> lr.intercept,
     r_squared |-> lr.r_squared, std_err |-> lr.std_err,
     power_law_value |-> power_law_value]

\* np.exp(intercept) * ((current_day + 1) ** slope), current_day = n - 1
LinearLogValue(n, lr) ==
    IF lr.raised THEN lr
    ELSE WithValue(lr, Mul(Exp(lr.intercept), Pow(n, lr.slope)))

\* Mutant of FitLinearLog: ln(price) is regressed on the day, not on
\* ln(day + 1).
FitLinearLogOnDays(prices) ==
    LinearLogValue(Len(prices), Linregress(Days(prices), LogPrices(prices)))

\* Lines 442-449: regression of ln(price) on ln(day + 1).
FitLinearLog(prices) ==
    LinearLogValue(Len(prices), Linregress(LogDays(prices), LogPrices(prices)))

\* Lines 457-462: ss_res, ss_tot, r_value = sqrt(1 - ss_res / ss_tot), and
\* slope, intercept, std_err = coeffs[0], coeffs[2], 0.
PolynomialStats(prices, coeffs, mean) ==
    [raised |-> FALSE,
     power_law_value |-> PolyVal(coeffs, Len(prices) - 1),
     r_squared |->
        SqrtSquared(Sub(Num(1),
            Div(SumSeq([i \in 1..Len(prices) |->
                          Square(Sub(prices[i], PolyVal(coeffs, i - 1)))]),
                SumSeq([i \in 1..Len(prices) |-> Square(Sub(prices[i], mean))])))),
     slope |-> coeffs[1], intercept |-> coeffs[3], std_err |-> Num(0)]

PolynomialValue(prices, pf) ==
    IF pf.raised THEN pf ELSE PolynomialStats(prices, pf.coeffs, Mean(prices))

\* Lines 451-462: degree-2 polynomial of price on day.
FitPolynomial(prices) == PolynomialValue(prices, Polyfit(prices))

\* np.exp(intercept + slope * (len(prices) - 1))
ExponentialValue(n, lr) ==
    IF lr.raised THEN lr
    ELSE WithValue(lr, Exp(Add(lr.intercept, Mul(lr.slope, Num(n - 1)))))

\* Lines 464-468: regression of ln(price) on day.
FitExponential(prices) ==
    ExponentialValue(Len(prices), Linregress(Days(prices), LogPrices(prices)))

\* intercept + slope * np.log(len(prices))
LogarithmicValue(n, lr) ==
    IF lr.raised THEN lr
    ELSE WithValue(lr, Add(lr.intercept, Mul(lr.slope, Ln(Num(n)))))

\* Lines 470-473: regression of price on ln(day + 1).
FitLogarithmic(prices) ==
    LogarithmicValue(Len(prices), Linregress(LogDays(prices), prices))

FitBranch(prices, branch) ==
    IF branch = "LinearLog" THEN FitLinearLog(prices)
    ELSE IF branch = "Polynomial2" THEN FitPolynomial(prices)
    ELSE IF branch = "Exponential" THEN FitExponential(prices)
    ELSE FitLogarithmic(prices)

\* Mutant of Deviation: the difference is divided by the current price.
DeviationOverPrice(current_price, power_law_value) ==
    Mul(Div(Sub(current_price, power_law_value), current_price), Num(100))

\* ((current_price - power_law_value) / power_law_value) * 100
Deviation(current_price, power_law_value) ==
    Mul(Div(Sub(current_price, power_law_value), power_law_value), Num(100))

\* Lines 475-491: the dict of results, or None when the try block raised.
AdvancedResult(prices, fit) ==
    IF fit.raised \/ Len(prices) = 0 THEN None
    ELSE [kind |-> "dict",
          current_price |-> prices[Len(prices)],
          power_law_value |-> fit.power_law_value,
          deviation |-> Deviation(prices[Len(prices)], fit.power_law_value),
          r_squared |-> fit.r_squared,
          slope |-> fit.slope,
          intercept |-> fit.intercept,
          std_error |-> fit.std_err]

\* calculate_advanced_power_law(df, model_type)
calculate_advanced_power_law(prices, model_type) ==
    AdvancedResult(prices, FitBranch(prices, Branch(model_type)))

\* Lines 416-434: the dict of results, or None when the try block raised.
BasicResult(prices, fit) ==
    IF fit.raised \/ Len(prices) = 0 THEN None
    ELSE [kind |-> "dict",
          current_price |-> prices[Len(prices)],
          current_value |-> fit.power_law_value,
          deviation |-> Deviation(prices[Len(prices)], fit.power_law_value),
          r_squared |-> fit.r_squared,
          slope |-> fit.slope,
          intercept |-> fit.intercept]

\* Mutant of calculate_basic_power_law: the dict of the regression of
\* ln(price) on the day.
BasicOnDays(prices) == BasicResult(prices, FitExponential(prices))

\* calculate_basic_power_law(df)
calculate_basic_power_law(prices) == BasicResult(prices, FitLinearLog(prices))

\* ------------------------------------------------------------ inputs
\* The prices a series may hold: a missing value, zero, and positive
\* prices (powers of two, on which Ln and Exp are exact).
Prices == {NaN, Num(0), Num(1), Num(2), Num(8)}

AllSeries == UNION {[1..n -> Prices] : n \in 0..MaxLen}

\* The model names render_multiple_models_tab passes to the fitter, in the
\* order of its list (line 267).
ComparisonModels == <<"Linear", "Polynomial", "Exponential", "Logarithmic">>

\* The model_type strings calculate_advanced_power_law tests for, and its
\* else branch.
ModelTypes == {"Linear Regression", "Polynomial", "Exponential", "Logarithmic"}

NoCall == [fn |-> "none"]

\* ------------------------------------------------------------ comparison
\* Lines 272-273: "if result: model_results[model] = result".  A Python
\* dict keeps insertion order, so model_results is the sequence of its
\* items.
Store(model_results, model, result) ==
    IF Truthy(result)
    THEN Append(model_results, [model |-> model, result |-> result])
    ELSE model_results

\* Mutant of FitLoop: a failed model ends the loop (break) instead of
\* being skipped.
RECURSIVE FitLoopBreak(_, _, _)
FitLoopBreak(prices, i, model_results) ==
    IF i > Len(ComparisonModels) THEN model_results
    ELSE IF ~Truthy(calculate_advanced_power_law(prices, ComparisonModels[i]))
    THEN model_results
    ELSE FitLoopBreak(prices, i + 1,
                 Store(model_results, ComparisonModels[i],
                       calculate_advanced_power_law(prices, ComparisonModels[i])))

\* Lines 270-273: the loop over the model names.
RECURSIVE FitLoop(_, _, _)
FitLoop(prices, i, model_results) ==
    IF i > Len(ComparisonModels) THEN model_results
    ELSE FitLoop(prices, i + 1,
                 Store(model_results, ComparisonModels[i],
                       calculate_advanced_power_law(prices, ComparisonModels[i])))

\* Line 293: max(items, key = r_squared).  Python's max keeps the first
\* item and replaces it only by an item whose key compares greater.
RECURSIVE MaxByRSquared(_, _, _)
MaxByRSquared(items, i, best) ==
    IF i > Len(items) THEN best
    ELSE MaxByRSquared(items, i + 1,
             IF Gt(items[i].result.r_squared, best.result.r_squared)
             THEN items[i] ELSE best)

\* Line 297: np.mean of the power_law_value of every stored result.
EnsembleMean(model_results) ==
    Mean([i \in 1..Len(model_results) |-> model_results[i].result.power_law_value])

\* The branch of the fitter each call of the loop runs.
LoopBranches == [i \in 1..Len(ComparisonModels) |-> Branch(ComparisonModels[i])]

\* Lines 292-301: the best model and the ensemble.
CompareShown(prices, model_results, ensemble_prediction) ==
    [fn |-> "compare", error |-> "", calls |-> LoopBranches,
     model_results |-> model_results,
     best_model |-> MaxByRSquared(model_results, 2, model_results[1]).model,
     ensemble_prediction |-> ensemble_prediction,
     ensemble_deviation |-> Deviation(prices[Len(prices)], ensemble_prediction)]

\* Lines 275-301.  The comparison table repeats model_results row by row
\* with the numbers formatted, and is left out.
CompareView(prices, model_results) ==
    IF model_results = <<>>
    THEN [fn |-> "compare", error |-> "Unable to calculate models",
          calls |-> LoopBranches, model_results |-> model_results]
    ELSE CompareShown(prices, model_results, EnsembleMean(model_results))

\* render_multiple_models_tab(df): what the tab shows.
render_multiple_models_tab(prices) == CompareView(prices, FitLoop(prices, 1, <<>>))

\* ------------------------------------------------------------ engine calls
\* A call of calculate_advanced_power_law on the series.
CallAdvanced(model_type) ==
    /\ ret = NoCall
    /\ ret' = [fn |-> "advanced", model_type |-> model_type,
               value |-> calculate_advanced_power_law(df, model_type)]
    /\ UNCHANGED df

\* A call of calculate_basic_power_law on the series.
CallBasic ==
    /\ ret = NoCall
    /\ ret' = [fn |-> "basic", model_type |-> "Linear Regression",
               value |-> calculate_basic_power_law(df)]
    /\ UNCHANGED df

\* A run of the comparison tab on the series.
CallCompare ==
    /\ ret = NoCall
    /\ ret' = render_multiple_models_tab(df)
    /\ UNCHANGED df

\* The caller has taken the result; the next call may start.
Return ==
    /\ ret # NoCall
    /\ ret' = NoCall
    /\ UNCHANGED df

Init ==
    /\ df \in AllSeries
    /\ ret = NoCall

Next ==
    \/ \E m \in ModelTypes : CallAdvanced(m)
    \/ CallBasic
    \/ CallCompare
    \/ Return

Spec == Init /\ [][Next]_vars

\* ------------------------------------------------------------ free page
\* Lines 82-87: "if deviation > 0" picks the message under the metric.
TrendMessage(deviation) ==
    IF Gt(deviation, Num(0)) THEN "Price above power law trend"
    ELSE "Price below power law trend"

\* Lines 95-100: the correlation message.
Correlation(r_squared) ==
    IF Gt(r_squared, Q(8, 10)) THEN "Strong correlation"
    ELSE IF Gt(r_squared, Q(6, 10)) THEN "Moderate correlation"
    ELSE "Weak correlation"

\* Mutant of Interpretation: the thresholds belong to the outer labels.
InterpretationInclusive(deviation) ==
    IF Ge(deviation, Num(10)) THEN "Potentially Overvalued"
    ELSE IF Le(deviation, Num(-10)) THEN "Potentially Undervalued"
    ELSE "Fair Value Range"

\* Lines 109-114: the interpretation of the deviation.
Interpretation(deviation) ==
    IF Gt(deviation, Num(10)) THEN "Potentially Overvalued"
    ELSE IF Lt(deviation, Num(-10)) THEN "Potentially Undervalued"
    ELSE "Fair Value Range"

\* np.exp(intercept) * ((day + 1) ** slope) for day = 0..n-1: the trend
\* line every chart and calculate_residuals draw from a dict.
TrendLine(n, power_law_data) ==
    [i \in 1..n |-> Mul(Exp(power_law_data.intercept), Pow(i, power_law_data.slope))]

\* Lines 69-114: the page for a fetched frame that is not empty.
BasicView(prices, power_law_data) ==
    IF ~Truthy(power_law_data)
    THEN [fn |-> "render_basic", error |-> "Unable to calculate power law"]
    ELSE [fn |-> "render_basic", error |-> "",
          power_law_data |-> power_law_data,
          message |-> TrendMessage(power_law_data.deviation),
          correlation |-> Correlation(power_law_data.r_squared),
          power_law_line |-> TrendLine(Len(prices), power_law_data),
          interpretation |-> Interpretation(power_law_data.deviation)]

\* render_basic_power_law(), prices being the frame the fetch returned.
render_basic_power_law(prices) ==
    IF Len(prices) = 0
    THEN [fn |-> "render_basic", error |-> "Unable to load price data"]
    ELSE BasicView(prices, calculate_basic_power_law(prices))

\* ------------------------------------------------------------ predictions
\* Lines 308-314: the timeframes, in the dict's order.
Timeframes ==
    <<[timeframe |-> "1 Week", days |-> 7],
      [timeframe |-> "1 Month", days |-> 30],
      [timeframe |-> "3 Months", days |-> 90],
      [timeframe |-> "6 Months", days |-> 180],
      [timeframe |-> "1 Year", days |-> 365]>>

\* abs() of a float.
AbsF(a) == IF a[1] < 0 THEN Neg(a) ELSE a

\* base * (1 + slope * days / 365)
Extrapolate(base, slope, days) ==
    Mul(base, Add(Num(1), Div(Mul(slope, Num(days)), Num(365))))

\* Mutant of PredictedPrice: the extrapolation starts at the last price.
PredictedFromPrice(power_law_data, current_price, days) ==
    Extrapolate(current_price, power_law_data.slope, days)

\* Line 328: the extrapolation starts at the trend value.
PredictedPrice(power_law_data, current_price, days) ==
    Extrapolate(power_law_data.power_law_value, power_law_data.slope, days)

\* Line 329: ((predicted_price - current_price) / current_price) * 100
ChangePercent(predicted_price, current_price) ==
    Mul(Div(Sub(predicted_price, current_price), current_price), Num(100))

\* Mutant of Confidence: a change of exactly 50% is still "Medium".
ConfidenceInclusive(change_percent) ==
    IF Le(AbsF(change_percent), Num(50)) THEN "Medium" ELSE "Low"

\* Line 335: "Medium" if abs(change_percent) < 50 else "Low"
Confidence(change_percent) ==
    IF Lt(AbsF(change_percent), Num(50)) THEN "Medium" ELSE "Low"

\* Lines 331-336: a row of the table.  The table prints the price with 4
\* decimals and the change with 1; the row keeps the numbers.
RowOf(tf, predicted_price, change_percent) ==
    [timeframe |-> tf.timeframe, days |-> tf.days,
     predicted_price |-> predicted_price,
     change_percent |-> change_percent,
     confidence |-> Confidence(change_percent)]

RowAt(tf, predicted_price, current_price) ==
    RowOf(tf, predicted_price, ChangePercent(predicted_price, current_price))

\* Lines 326-336: the body of the loop, for one timeframe.
PredictionRow(power_law_data, current_price, tf) ==
    RowAt(tf, PredictedPrice(power_law_data, current_price, tf.days), current_price)

\* Lines 653-658 of create_prediction_chart: the chart's future prices.
FuturePrices(last_price, power_law_data) ==
    [i \in 1..Len(Timeframes) |->
        Extrapolate(last_price, power_law_data.slope, Timeframes[i].days)]

\* Lines 319-344: the table and the chart, or the error.
PredictionsView(prices, power_law_data) ==
    IF ~Truthy(power_law_data)
    THEN [fn |-> "render_predictions", error |-> "Unable to generate predictions"]
    ELSE [fn |-> "render_predictions", error |-> "",
          power_law_data |-> power_law_data,
          predictions |->
             [i \in 1..Len(Timeframes) |->
                 PredictionRow(power_law_data, prices[Len(prices)], Timeframes[i])],
          future_prices |-> FuturePrices(prices[Len(prices)], power_law_data)]

\* render_predictions_tab(df)
render_predictions_tab(prices) ==
    PredictionsView(prices, calculate_advanced_power_law(prices, "Linear Regression"))

\* ------------------------------------------------------------ main tab
\* Lines 155-175: the choices of the three select boxes.
TimeRanges == {"3M", "6M", "1Y", "2Y", "All"}
MainModelTypes == {"Linear Regression", "Polynomial", "Exponential"}
ConfidenceLevels == {"68%", "95%", "99%"}

\* df.tail(rows): the last rows of the frame, all of it when it is shorter.
TailRows(prices, rows) ==
    IF Len(prices) <= rows THEN prices
    ELSE SubSeq(prices, Len(prices) - rows + 1, Len(prices))

\* Lines 178-187: the frame analysed for a time range (hourly rows).
AnalysisData(prices, time_range) ==
    IF time_range = "3M" THEN TailRows(prices, 90 * 24)
    ELSE IF time_range = "6M" THEN TailRows(prices, 180 * 24)
    ELSE IF time_range = "1Y" THEN TailRows(prices, 365 * 24)
    ELSE IF time_range = "2Y" THEN TailRows(prices, 730 * 24)
    ELSE prices

\* The frames the time ranges select from a frame.
AnalysisFrames(prices) == {AnalysisData(prices, t) : t \in TimeRanges}

\* Lines 576-581: the trend line when the dict holds a slope and an
\* intercept, the prices themselves otherwise.
ChartLine(prices, power_law_data) ==
    IF "slope" \in DOMAIN power_law_data /\ "intercept" \in DOMAIN power_law_data
    THEN TrendLine(Len(prices), power_law_data)
    ELSE prices

\* Mutant of Multiplier: the factors of 95% and 99% are exchanged.
MultiplierSwapped(confidence_level) ==
    IF confidence_level = "95%" THEN Q(258, 100)
    ELSE IF confidence_level = "99%" THEN Q(196, 100)
    ELSE Num(1)

\* Lines 592-597: 1.96 for 95%, 2.58 for 99%, 1.0 otherwise.
Multiplier(confidence_level) ==
    IF confidence_level = "95%" THEN Q(196, 100)
    ELSE IF confidence_level = "99%" THEN Q(258, 100)
    ELSE Num(1)

\* Line 599: power_law_data.get('std_error', 0.1)
StdErrorOf(power_law_data) ==
    IF "std_error" \in DOMAIN power_law_data THEN power_law_data.std_error
    ELSE Q(1, 10)

\* Lines 600-601: the bands around a line, factor = multiplier * std_error.
Bands(power_law_line, confidence_level, factor) ==
    [confidence_level |-> confidence_level,
     power_law_line |-> power_law_line,
     upper_bound |-> [i \in 1..Len(power_law_line) |->
                         Mul(power_law_line[i], Add(Num(1), factor))],
     lower_bound |-> [i \in 1..Len(power_law_line) |->
                         Mul(power_law_line[i], Sub(Num(1), factor))]]

\* create_advanced_power_law_chart(df, power_law_data, confidence_level):
\* the traces of the figure after the price trace.
create_advanced_power_law_chart(prices, power_law_data, confidence_level) ==
    Bands(ChartLine(prices, power_law_data), confidence_level,
          Mul(Multiplier(confidence_level), StdErrorOf(power_law_data)))

\* Lines 250-257: the fit's quality message.
Quality(r_squared) ==
    IF Gt(r_squared, Q(9, 10)) THEN "Excellent fit"
    ELSE IF Gt(r_squared, Q(8, 10)) THEN "Good fit"
    ELSE IF Gt(r_squared, Q(6, 10)) THEN "Moderate fit"
    ELSE "Poor fit"

\* Mutant of MainView: a failed fit leaves the tab empty, without a message.
MainViewSilent(analysis_data, model_type, confidence_level, power_law_results) ==
    IF ~Truthy(power_law_results)
    THEN [fn |-> "render_main", model_type |-> model_type, error |-> ""]
    ELSE [fn |-> "render_main", model_type |-> model_type, error |-> "",
          power_law_results |-> power_law_results,
          chart |-> create_advanced_power_law_chart(analysis_data, power_law_results,
                                                    confidence_level),
          quality |-> Quality(power_law_results.r_squared)]

\* Lines 192-260: the metrics, the chart and the quality, or the error.
MainView(analysis_data, model_type, confidence_level, power_law_results) ==
    IF ~Truthy(power_law_results)
    THEN [fn |-> "render_main", model_type |-> model_type,
          error |-> "Unable to calculate power law model"]
    ELSE [fn |-> "render_main", model_type |-> model_type, error |-> "",
          power_law_results |-> power_law_results,
          chart |-> create_advanced_power_law_chart(analysis_data, power_law_results,
                                                    confidence_level),
          quality |-> Quality(power_law_results.r_squared)]

\* render_main_power_law_tab(df, subscription), past the select boxes.
render_main_power_law_tab(analysis_data, model_type, confidence_level) ==
    MainView(analysis_data, model_type, confidence_level,
             calculate_advanced_power_law(analysis_data, model_type))

\* ------------------------------------------------------------ statistics
\* A numpy array, as Python sees it next to None.
Array(data) == [kind |-> "ndarray", data |-> data]

\* Mutant of calculate_residuals: the trend minus the prices.
ResidualsNegated(prices, power_law_data) ==
    IF Len(prices) > 0 /\
       ~("slope" \in DOMAIN power_law_data /\ "intercept" \in DOMAIN power_law_data)
    THEN None
    ELSE Array([i \in 1..Len(prices) |->
                  Sub(Mul(Exp(power_law_data.intercept), Pow(i, power_law_data.slope)),
                      prices[i])])

\* Lines 495-509: prices minus the trend line of the dict's slope and
\* intercept; None when the dict lacks one of them (KeyError).
calculate_residuals(prices, power_law_data) ==
    IF Len(prices) > 0 /\
       ~("slope" \in DOMAIN power_law_data /\ "intercept" \in DOMAIN power_law_data)
    THEN None
    ELSE Array([i \in 1..Len(prices) |->
                  Sub(prices[i],
                      Mul(Exp(power_law_data.intercept), Pow(i, power_law_data.slope)))])

\* Mutant of Diff: the differences wrap around (r[0] - r[n-1] is added).
DiffWrapped(r) ==
    [i \in 1..Len(r) |-> Sub(r[(i % Len(r)) + 1], r[i])]

\* np.diff: the differences of neighbours.
Diff(r) ==
    IF Len(r) = 0 THEN <<>>
    ELSE [i \in 1..(Len(r) - 1) |-> Sub(r[i + 1], r[i])]

\* np.sum(a ** 2)
SumOfSquares(a) == SumSeq([i \in 1..Len(a) |-> Square(a[i])])

\* Mutant of calculate_durbin_watson: the denominator leaves out the
\* first residual.
DurbinWatsonShort(residuals) ==
    IF residuals.kind # "ndarray" THEN Num(0)
    ELSE Div(SumOfSquares(Diff(residuals.data)),
             SumOfSquares(SubSeq(residuals.data, 2, Len(residuals.data))))

\* Lines 513-518: np.sum(diff**2) / np.sum(residuals**2); a division of
\* numpy floats by zero raises nothing.  The except branch is reached by
\* an argument that is no array (np.diff raises on None).
calculate_durbin_watson(residuals) ==
    IF residuals.kind # "ndarray" THEN Num(0)
    ELSE Div(SumOfSquares(Diff(residuals.data)), SumOfSquares(residuals.data))

\* Lines 383-399: the residual metrics, when there are residuals.
ResidualStats(residuals) ==
    IF residuals.kind # "ndarray" THEN [shown |-> FALSE]
    ELSE [shown |-> TRUE, residuals |-> residuals.data,
          mean_residual |-> Mean(residuals.data),
          dw_stat |-> calculate_durbin_watson(residuals)]

\* Lines 356-399.  The price statistics (mean, std, min, max) and the
\* metrics that only print a dict entry or its default are left out.
StatisticsView(prices, power_law_data) ==
    IF ~Truthy(power_law_data)
    THEN [fn |-> "render_statistics", error |-> "Unable to calculate statistics"]
    ELSE [fn |-> "render_statistics", error |-> "",
          power_law_data |-> power_law_data,
          residual_stats |-> ResidualStats(calculate_residuals(prices, power_law_data))]

\* Mutant of render_statistics_tab: the diagnostics are those of the
\* polynomial model.
StatisticsByPolynomial(prices) ==
    StatisticsView(prices, calculate_advanced_power_law(prices, "Polynomial"))

\* render_statistics_tab(df)
render_statistics_tab(prices) ==
    StatisticsView(prices, calculate_advanced_power_law(prices, "Linear Regression"))

\* ------------------------------------------------------------ page calls
\* The free page on the fetched frame.
CallBasicPage ==
    /\ ret = NoCall
    /\ ret' = render_basic_power_law(df)
    /\ UNCHANGED df

\* The main tab, for the choices of its select boxes.
CallMainTab(model_type, confidence_level) ==
    /\ ret = NoCall
    /\ \E analysis_data \in AnalysisFrames(df) :
          ret' = render_main_power_law_tab(analysis_data, model_type, confidence_level)
    /\ UNCHANGED df

\* The predictions tab.
CallPredictions ==
    /\ ret = NoCall
    /\ ret' = render_predictions_tab(df)
    /\ UNCHANGED df

\* Mutant of CallStatistics: the residuals are computed in place, in the
\* frame's price column.
CallStatisticsInPlace ==
    /\ ret = NoCall
    /\ ret' = render_statistics_tab(df)
    /\ df' = IF ret'.error = "" /\ ret'.residual_stats.shown
             THEN ret'.residual_stats.residuals
             ELSE df

\* The statistics tab.
CallStatistics ==
    /\ ret = NoCall
    /\ ret' = render_statistics_tab(df)
    /\ UNCHANGED df

\* The comparison tab.
CallComparePage ==
    /\ ret = NoCall
    /\ ret' = render_multiple_models_tab(df)
    /\ UNCHANGED df

PageNext ==
    \/ CallBasicPage
    \/ \E m \in MainModelTypes : \E c \in ConfidenceLevels : CallMainTab(m, c)
    \/ CallComparePage
    \/ CallPredictions
    \/ CallStatistics
    \/ Return

\* Longest frame the pages are run on.
MaxRows == 3

PageSeries == UNION {[1..n -> Prices] : n \in 0..MaxRows}

PageInit ==
    /\ df \in PageSeries
    /\ ret = NoCall

\* The pages, run on every frame the data source may return.
PageSpec == PageInit /\ [][PageNext]_vars

\* ------------------------------------------------------------ helper calls
\* The helpers and loop bodies, called on arguments of their own: every
\* argument of the kind the callers pass, not only those a fit produces.

\* Deviations run over the halves from -DevHalves / 2 to DevHalves / 2.
DevHalves == 24

\* Longest residual array.
MaxResiduals == 4

Deviations == {Q(n, 2) : n \in (0 - DevHalves)..DevHalves} \cup {NaN, PInf, NInf}

TrendValues == {Num(1), Num(100)}
Slopes == {Num(0), Q(1, 10), Q(1, 2), Q(-1, 2), NaN}
LastPrices == {Num(1), Num(95), Num(100)}

\* Dicts handed to the chart: with a std_error below, at and above 0, and
\* without one.
ChartDicts ==
    {[kind |-> "dict", slope |-> sl, intercept |-> Num(0), std_error |-> se] :
        sl \in {Num(0), Num(1), Num(-1)},
        se \in {Num(-1), Q(-1, 20), Num(0), Q(1, 20), Num(1), NaN}}
    \cup {[kind |-> "dict", slope |-> Num(1), intercept |-> Num(0)]}
    \cup {[kind |-> "dict", std_error |-> Q(1, 20)]}

ResidualArrays ==
    {Array(r) : r \in UNION {[1..n -> {Num(-1), Num(0), Num(1)}] : n \in 0..MaxResiduals}}

\* Frames of a constant price, one of each length.
UnitFrames == {[i \in 1..n |-> Num(1)] : n \in 0..MaxLen}

\* Lines 106-114 on a deviation.
Interpret ==
    /\ ret = NoCall
    /\ \E deviation \in Deviations :
          ret' = [fn |-> "interpretation", deviation |-> deviation,
                  interpretation |-> Interpretation(deviation)]
    /\ UNCHANGED df

\* Lines 326-336 on a dict, a last price and a timeframe.
PredictStep ==
    /\ ret = NoCall
    /\ \E v \in TrendValues, sl \in Slopes, p \in LastPrices, i \in 1..Len(Timeframes) :
          ret' = [fn |-> "prediction",
                  power_law_value |-> v, slope |-> sl, current_price |-> p,
                  row |-> PredictionRow([kind |-> "dict", power_law_value |-> v,
                                         slope |-> sl], p, Timeframes[i])]
    /\ UNCHANGED df

\* create_advanced_power_law_chart on the frame and a dict.
CallChart ==
    /\ ret = NoCall
    /\ \E d \in ChartDicts, c \in ConfidenceLevels :
          ret' = [fn |-> "chart", power_law_data |-> d,
                  chart |-> create_advanced_power_law_chart(df, d, c)]
    /\ UNCHANGED df

\* calculate_durbin_watson on an array, or on None.
CallDurbinWatson ==
    /\ ret = NoCall
    /\ \E r \in ResidualArrays \cup {None} :
          ret' = [fn |-> "durbin_watson", residuals |-> r,
                  value |-> calculate_durbin_watson(r)]
    /\ UNCHANGED df

\* The price of row i (day i - 1) on the curve exp(2.0) * (day + 1) ** 0.5,
\* taken where the fit reads it, on the log scale: ln(price) is exactly
\* 2 + 0.5 * ln(day + 1).
SyntheticPrice(i) == Exp(Add(Num(2), Mul(Q(1, 2), Ln(Num(i)))))

SyntheticSeries(n) == [i \in 1..n |-> SyntheticPrice(i)]

\* Both fits of the log-log regression on a series of the curve.
FitSynthetic ==
    /\ ret = NoCall
    /\ \E n \in 0..MaxLen :
          ret' = [fn |-> "synthetic", n |-> n, prices |-> SyntheticSeries(n),
                  basic |-> calculate_basic_power_law(SyntheticSeries(n)),
                  advanced |-> calculate_advanced_power_law(SyntheticSeries(n),
                                                            "Linear Regression")]
    /\ UNCHANGED df

HelperInit ==
    /\ df \in UnitFrames
    /\ ret = NoCall

HelperNext ==
    \/ Interpret
    \/ PredictStep
    \/ CallChart
    \/ CallDurbinWatson
    \/ FitSynthetic
    \/ Return

HelperSpec == HelperInit /\ [][HelperNext]_vars

\* ------------------------------------------------------------ engine session
\* Several engine calls in a row on one frame.  ret keeps the calls made
\* and what they wrote on the Streamlit page.

\* Most calls in one session.
MaxCalls == 2

\* Lines 433 and 490: the st.error call of an except branch.
StError(text, model_type) == [st |-> "error", text |-> text, model_type |-> model_type]

\* Lines 489-491: calculate_advanced_power_law returns None exactly when
\* its except branch ran, which writes the message first.
AdvancedEffects(model_type, value) ==
    IF value = None THEN <<StError("Error calculating model", model_type)>> ELSE <<>>

\* Lines 432-434, the same for calculate_basic_power_law.
BasicEffects(value) ==
    IF value = None THEN <<StError("Error calculating power law", "")>> ELSE <<>>

NoCalls == [fn |-> "session", calls |-> <<>>, screen |-> <<>>]

\* One more call in the session: its arguments and value are logged, its
\* messages are added to the page.
Logged(session, call, effects) ==
    [fn |-> "session",
     calls |-> Append(session.calls, call),
     screen |-> session.screen \o effects]

SessionAdvancedCall(session, model_type, value) ==
    Logged(session, [fn |-> "advanced", model_type |-> model_type, value |-> value],
           AdvancedEffects(model_type, value))

SessionBasicCall(session, value) ==
    Logged(session, [fn |-> "basic", model_type |-> "Linear Regression", value |-> value],
           BasicEffects(value))

\* calculate_advanced_power_law(df, model_type) within a session.
SessionAdvanced(model_type) ==
    /\ Len(ret.calls) < MaxCalls
    /\ ret' = SessionAdvancedCall(ret, model_type,
                                  calculate_advanced_power_law(df, model_type))
    /\ UNCHANGED df

\* calculate_basic_power_law(df) within a session.
SessionBasic ==
    /\ Len(ret.calls) < MaxCalls
    /\ ret' = SessionBasicCall(ret, calculate_basic_power_law(df))
    /\ UNCHANGED df

SessionInit ==
    /\ df \in PageSeries
    /\ ret = NoCalls

SessionNext ==
    \/ \E m \in ModelTypes : SessionAdvanced(m)
    \/ SessionBasic

SessionSpec == SessionInit /\ [][SessionNext]_vars

\* ------------------------------------------------------------ page run
\* The values of user['subscription'] the application tests for.
Subscriptions == {"public", "free", "premium", "pro"}

\* Lines 132-137: the labels of the four tabs.
Tabs == <<"Power Law Model", "Multiple Models", "Predictions", "Statistics">>

\* streamlit_app.py, get_navigation_pages: the navigation lists the page.
PowerLawListed(subscription) == subscription \in {"premium", "pro"}

\* Lines 139-146: the tab chosen, with the main tab's select boxes.
TabView(prices, tab, analysis_data, model_type, confidence_level) ==
    IF tab = "Power Law Model"
    THEN render_main_power_law_tab(analysis_data, model_type, confidence_level)
    ELSE IF tab = "Multiple Models" THEN render_multiple_models_tab(prices)
    ELSE IF tab = "Predictions" THEN render_predictions_tab(prices)
    ELSE render_statistics_tab(prices)

\* render_advanced_power_law(subscription), prices being the frame the
\* fetch of 730 days returned.
render_advanced_power_law(prices, tab, analysis_data, model_type, confidence_level) ==
    IF Len(prices) = 0
    THEN [fn |-> "render_advanced", error |-> "Unable to load price data"]
    ELSE TabView(prices, tab, analysis_data, model_type, confidence_level)

\* A run of the page: who ran it, whether st.stop() ended it, the days of
\* price data fetched (0: no fetch) and the view rendered.
PageRun(subscription, stopped, fetched_days, view) ==
    [fn |-> "main", subscription |-> subscription,
     listed |-> PowerLawListed(subscription),
     stopped |-> stopped, fetched_days |-> fetched_days, view |-> view]

\* Mutant of main: the test for 'free' is missing.
MainWithoutFreeBranch(subscription, prices, tab, analysis_data, model_type, confidence_level) ==
    IF subscription = "public" THEN PageRun(subscription, TRUE, 0, NoCall)
    ELSE PageRun(subscription, FALSE, 730,
                 render_advanced_power_law(prices, tab, analysis_data, model_type,
                                           confidence_level))

\* Lines 28-53: main(), for the subscription of the current user.
main(subscription, prices, tab, analysis_data, model_type, confidence_level) ==
    IF subscription = "public" THEN PageRun(subscription, TRUE, 0, NoCall)
    ELSE IF subscription = "free"
    THEN PageRun(subscription, FALSE, 30, render_basic_power_law(prices))
    ELSE PageRun(subscription, FALSE, 730,
                 render_advanced_power_law(prices, tab, analysis_data, model_type,
                                           confidence_level))

\* How the widgets may stand: a tab and, read by the main tab only, its
\* select boxes.
Widgets(tab, analysis_data, model_type, confidence_level) ==
    [tab |-> tab, analysis_data |-> analysis_data, model_type |-> model_type,
     confidence_level |-> confidence_level]

WidgetStates(prices) ==
    {Widgets(Tabs[1], a, m, c) :
        a \in AnalysisFrames(prices), m \in MainModelTypes, c \in ConfidenceLevels}
    \cup {Widgets(Tabs[i], prices, "Linear Regression", "95%") : i \in 2..Len(Tabs)}

\* The page is run by a user, the widgets standing in one of their states.
RunPage(subscription) ==
    /\ ret = NoCall
    /\ \E w \in WidgetStates(df) :
          ret' = main(subscription, df, w.tab, w.analysis_data, w.model_type,
                      w.confidence_level)
    /\ UNCHANGED df

AppNext ==
    \/ \E subscription \in Subscriptions : RunPage(subscription)
    \/ Return

\* Runs of the page on every frame the data source may return.
AppSpec == PageInit /\ [][AppNext]_vars

\* ------------------------------------------------------------ claims
\* The model types whose fits the spec names, in its canonical order.
CanonicalTypes == <<"Linear Regression", "Polynomial", "Exponential", "Logarithmic">>

IsFitCall == ret.fn \in {"advanced", "basic"}
IsCompare == ret.fn = "compare"

\* The trend value of a returned dict (current_value in the basic dict).
TrendOf(r) == IF r.fn = "basic" THEN r.value.current_value ELSE r.value.power_law_value

\* -1, 0 or 1, and 2 for a NaN.
SignOf(a) == IF IsNaN(a) THEN 2 ELSE Sgn(a[1])


HasNonPositive(prices) == \E i \in 1..Len(prices) : Le(prices[i], Num(0))
AllPositive(prices) == \A i \in 1..Len(prices) : Gt(prices[i], Num(0))

\* The series the spec calls valid: two points or more, every price > 0.
ValidSeries(prices) == Len(prices) >= 2 /\ AllPositive(prices)

\* The names of the stored results, in order.
StoredModels(r) == [i \in 1..Len(r.model_results) |-> r.model_results[i].model]

\* The comparison's names whose fit on the series returns a dict.
SucceededModels(prices) ==
    SelectSeq(ComparisonModels,
              LAMBDA m : Truthy(calculate_advanced_power_law(prices, m)))

\* The spec's families whose fit on the series returns a dict.
SucceededFamilies(prices) ==
    SelectSeq(CanonicalTypes,
              LAMBDA m : Truthy(calculate_advanced_power_law(prices, m)))

\* C1: in the comparison every entry is computed by its own family: the
\* calls run the branches LinearLog, Polynomial2, Exponential, Logarithmic
\* in this order, no branch twice, and every stored entry is the fit of
\* its family.  Stated for the valid series, where it already fails.
C1_EntriesByDistinctFamilies ==
    (IsCompare /\ ValidSeries(df)) =>
        /\ ret.calls = <<"LinearLog", "Polynomial2", "Exponential", "Logarithmic">>
        /\ \A i, j \in 1..Len(ret.calls) : i # j => ret.calls[i] # ret.calls[j]
        /\ \A i \in 1..Len(ret.model_results) :
              \A k \in 1..Len(ComparisonModels) :
                 ret.model_results[i].model = ComparisonModels[k] =>
                    ret.model_results[i].result =
                        calculate_advanced_power_law(df, CanonicalTypes[k])

\* The result of each of the comparison's four calls on the series.
FitsOf(prices) ==
    [k \in 1..Len(ComparisonModels) |->
        calculate_advanced_power_law(prices, ComparisonModels[k])]

\* The positions of the calls that returned a dict, in the loop's order.
SucceededIn(fits) ==
    SelectSeq([k \in 1..Len(fits) |-> k], LAMBDA k : Truthy(fits[k]))

\* The comparison r stores exactly the successful ones of the fits, with
\* their results, averages exactly these and reports the error exactly
\* when none succeeded.
StoresExactly(r, fits, ok) ==
    /\ StoredModels(r) = [i \in 1..Len(ok) |-> ComparisonModels[ok[i]]]
    /\ \A i \in 1..Len(ok) : r.model_results[i].result = fits[ok[i]]
    /\ (r.error = "") <=> (ok # <<>>)
    /\ (r.error # "") <=> (\A k \in 1..Len(fits) : ~Truthy(fits[k]))
    /\ r.error = "" =>
          r.ensemble_prediction =
              Div(SumSeq([i \in 1..Len(ok) |-> fits[ok[i]].power_law_value]),
                  Num(Len(ok)))

ExactlySucceeded(r, fits) == StoresExactly(r, fits, SucceededIn(fits))

\* C2: the result mapping holds exactly the models whose fit did not fail,
\* each with its own result; the ensemble averages exactly these; output
\* is produced when at least one model succeeds and the error is reported
\* only when all four fail.
C2_FailedModelsExcluded ==
    IsCompare => ExactlySucceeded(ret, FitsOf(df))

\* C2 witness: a comparison of two or more points in which one model
\* failed and three succeeded.
C2_Witness ==
    /\ IsCompare
    /\ Len(df) >= 2
    /\ ret.error = ""
    /\ StoredModels(ret) = <<"Linear", "Exponential", "Logarithmic">>

\* C3: the ensemble trend value is the mean of the trend values of the
\* model families that fitted successfully, each family counted once.
\* Stated for the valid series, where it already fails.
C3_EnsembleMeanOverFamilies ==
    (IsCompare /\ ret.error = "" /\ ValidSeries(df)) =>
        ret.ensemble_prediction =
            Div(SumSeq([i \in 1..Len(SucceededFamilies(df)) |->
                  calculate_advanced_power_law(df, SucceededFamilies(df)[i]).power_law_value]),
                Num(Len(SucceededFamilies(df))))

\* C4: the best model's r_squared is at least that of every stored entry,
\* and every entry before it in the order has a smaller r_squared.
\* Stated for the valid series, where it already fails.
C4_BestIsFirstMaximum ==
    (IsCompare /\ ret.error = "" /\ ValidSeries(df)) =>
        \E b \in 1..Len(ret.model_results) :
            /\ ret.model_results[b].model = ret.best_model
            /\ \A i \in 1..Len(ret.model_results) :
                  Ge(ret.model_results[b].result.r_squared,
                     ret.model_results[i].result.r_squared)
            /\ \A i \in 1..(b - 1) :
                  Lt(ret.model_results[i].result.r_squared,
                     ret.model_results[b].result.r_squared)

\* C5: a log-domain fit (LinearLog, basic or advanced, and Exponential) of
\* a series holding a price <= 0 returns no dict.  Stated for series of
\* two or more prices that are all numbers, where it already fails.
C5_NonPositivePriceIsError ==
    (/\ IsFitCall
     /\ Len(df) >= 2
     /\ \A i \in 1..Len(df) : IsFinite(df[i])
     /\ ret.model_type \in {"Linear Regression", "Exponential"}
     /\ HasNonPositive(df)) => ret.value = None

\* C6: a fit of a series of length 0 or 1 returns no dict, for every
\* model type.  Stated for positive prices, where it already fails.
C6_ShortSeriesIsError ==
    (IsFitCall /\ Len(df) <= 1 /\ AllPositive(df)) => ret.value = None

\* C7: the polynomial fit of exactly two points returns no dict, while
\* the three linear-regression models accept two points.  Stated for
\* positive prices, where it already fails.
C7_PolynomialNeedsThreePoints ==
    (IsFitCall /\ Len(df) = 2 /\ AllPositive(df)) =>
        /\ ret.model_type = "Polynomial" => ret.value = None
        /\ ret.model_type # "Polynomial" => Truthy(ret.value)

\* C8: for a valid series (length >= 2, every price > 0) the r_squared of
\* every returned dict is a number in [0, 1].
C8_RSquaredInUnitInterval ==
    (IsFitCall /\ Len(df) >= 2 /\ AllPositive(df) /\ Truthy(ret.value)) =>
        /\ Ge(ret.value.r_squared, Num(0))
        /\ Le(ret.value.r_squared, Num(1))

\* C9 as stated: deviation = (current_price - trend_value) / trend_value
\* * 100 and its sign is the sign of current_price - trend_value, whatever
\* the trend value.  Stated for the valid series and a trend value that is
\* a number other than 0, where it already fails.
C9_SignMatchesAlways ==
    (/\ IsFitCall
     /\ Truthy(ret.value)
     /\ ValidSeries(df)
     /\ IsFinite(TrendOf(ret))
     /\ ~Eq(TrendOf(ret), Num(0))) =>
        /\ ret.value.deviation =
              Mul(Div(Sub(ret.value.current_price, TrendOf(ret)), TrendOf(ret)), Num(100))
        /\ SignOf(ret.value.deviation) =
              SignOf(Sub(ret.value.current_price, TrendOf(ret)))

\* C9 as amended: deviation = (current_price - trend_value) / trend_value
\* * 100; its sign is the sign of current_price - trend_value when the
\* trend value is positive, and the opposite sign when it is negative.
C9_SignMatchesForPositiveTrend ==
    (IsFitCall /\ Truthy(ret.value)) =>
        /\ ret.value.deviation =
              Mul(Div(Sub(ret.value.current_price, TrendOf(ret)), TrendOf(ret)), Num(100))
        /\ (IsFinite(TrendOf(ret)) /\ Gt(TrendOf(ret), Num(0))) =>
              SignOf(ret.value.deviation) =
                  SignOf(Sub(ret.value.current_price, TrendOf(ret)))
        /\ (IsFinite(TrendOf(ret)) /\ Lt(TrendOf(ret), Num(0))) =>
              SignOf(ret.value.deviation) =
                  SignOf(Sub(TrendOf(ret), ret.value.current_price))

\* C9 witness: a returned dict with a negative trend value and a price
\* above it, so the deviation is negative.
C9_Witness ==
    /\ IsFitCall
    /\ ValidSeries(df)
    /\ Truthy(ret.value)
    /\ IsFinite(TrendOf(ret))
    /\ Lt(TrendOf(ret), Num(0))
    /\ Gt(ret.value.current_price, TrendOf(ret))
    /\ Lt(ret.value.deviation, Num(0))

\* C10: no dict is returned whose trend value is zero (the deviation's
\* division by zero ends in the error outcome).
C10_ZeroTrendIsError ==
    (IsFitCall /\ Truthy(ret.value)) => ~Eq(TrendOf(ret), Num(0))

\* The three interpretations of lines 109-114.
Interpretations ==
    {"Potentially Overvalued", "Potentially Undervalued", "Fair Value Range"}

\* C11: the interpretation is one of three labels for every deviation:
\* overvalued exactly when the deviation is above 10, undervalued exactly
\* when it is below -10, fair value otherwise; the deviations 10 and -10
\* themselves are fair value.
C11_LabelByThresholds ==
    ret.fn = "interpretation" =>
        /\ ret.interpretation \in Interpretations
        /\ (ret.interpretation = "Potentially Overvalued") <=> Gt(ret.deviation, Num(10))
        /\ (ret.interpretation = "Potentially Undervalued") <=> Lt(ret.deviation, Num(-10))
        /\ ret.deviation \in {Num(10), Num(-10)} =>
              ret.interpretation = "Fair Value Range"

\* C11 witness: the deviation is exactly 10 and the label is fair value.
C11_Witness ==
    /\ ret.fn = "interpretation"
    /\ ret.deviation = Num(10)
    /\ ret.interpretation = "Fair Value Range"

\* C12: the free page shows no interpretation and no above/below message
\* for a trend value or deviation that is NaN: it ends in its error.
\* Stated for frames whose prices are all positive, where it already
\* fails.
C12_NaNDeviationIsError ==
    (/\ ret.fn = "render_basic"
     /\ AllPositive(df)
     /\ ret.error = "") =>
        /\ ~IsNaN(ret.power_law_data.current_value)
        /\ ~IsNaN(ret.power_law_data.deviation)

\* The rows are those of the timeframes, computed from the trend value and
\* slope of the dict fit and the last price.
RowsFollow(rows, fit, last_price) ==
    /\ Len(rows) = Len(Timeframes)
    /\ \A i \in 1..Len(rows) :
          /\ rows[i].days = Timeframes[i].days
          /\ rows[i].predicted_price =
                Mul(fit.power_law_value,
                    Add(Num(1), Div(Mul(fit.slope, Num(rows[i].days)), Num(365))))
          /\ rows[i].change_percent =
                Mul(Div(Sub(rows[i].predicted_price, last_price), last_price), Num(100))

\* The row of the spec's example: trend value 100, slope 0.1, last price
\* 95, one year.
ExampleRow ==
    PredictionRow([kind |-> "dict", power_law_value |-> Num(100), slope |-> Q(1, 10)],
                  Num(95), Timeframes[5])

\* C13: every row of the predictions table has predicted_price =
\* trend_value * (1 + slope * h / 365), trend_value being the value of the
\* LinearLog fit at the last index, and change_pct = (predicted_price -
\* last_price) / last_price * 100; trend value 100, slope 0.1, last price
\* 95 and h = 365 give 110 and 300/19 (about 15.79) per cent.
C13_PredictionFromTrendValue ==
    /\ ExampleRow.predicted_price = Num(110)
    /\ ExampleRow.change_percent = Q(300, 19)
    /\ Gt(ExampleRow.change_percent, Q(1578, 100))
    /\ Lt(ExampleRow.change_percent, Q(1580, 100))
    /\ (ret.fn = "render_predictions" /\ ret.error = "") =>
          RowsFollow(ret.predictions,
                     calculate_advanced_power_law(df, "Linear Regression"),
                     df[Len(df)])

\* C13 witness: a predictions table of a valid series whose trend value is
\* a number other than the last price, with a slope other than 0.
C13_Witness ==
    /\ ret.fn = "render_predictions"
    /\ ret.error = ""
    /\ ValidSeries(df)
    /\ IsFinite(ret.power_law_data.power_law_value)
    /\ ret.power_law_data.power_law_value # df[Len(df)]
    /\ IsFinite(ret.power_law_data.slope)
    /\ ret.power_law_data.slope # Num(0)
    /\ IsFinite(ret.predictions[5].change_percent)

\* C14: the confidence of a row is "Medium" exactly when the absolute
\* value of its change is below 50 and "Low" otherwise; a change of
\* exactly 50 or -50 per cent is "Low".
C14_ConfidenceByChange ==
    ret.fn = "prediction" =>
        /\ ret.row.confidence \in {"Medium", "Low"}
        /\ (ret.row.confidence = "Medium") <=>
              (Lt(ret.row.change_percent, Num(50)) /\ Gt(ret.row.change_percent, Num(-50)))
        /\ ret.row.change_percent \in {Num(50), Num(-50)} => ret.row.confidence = "Low"

\* C14 witness: a row whose change is exactly 50 per cent, with "Low".
C14_Witness ==
    /\ ret.fn = "prediction"
    /\ ret.row.change_percent = Num(50)
    /\ ret.row.confidence = "Low"

\* The bands of a chart follow its trend line with the factor m * se.
BandsFollow(chart, m, se) ==
    /\ Len(chart.upper_bound) = Len(chart.power_law_line)
    /\ Len(chart.lower_bound) = Len(chart.power_law_line)
    /\ \A i \in 1..Len(chart.power_law_line) :
          /\ chart.upper_bound[i] =
                Mul(chart.power_law_line[i], Add(Num(1), Mul(m, se)))
          /\ chart.lower_bound[i] =
                Mul(chart.power_law_line[i], Sub(Num(1), Mul(m, se)))

\* The multiplier the spec gives a confidence level.
SpecMultiplier(confidence_level) ==
    IF confidence_level = "68%" THEN Num(1)
    ELSE IF confidence_level = "95%" THEN Q(196, 100)
    ELSE Q(258, 100)

IsMainChart == ret.fn = "render_main" /\ ret.error = ""

\* C15: the bands of the main tab's chart use the multiplier 1.0 for 68%,
\* 1.96 for 95% and 2.58 for 99%; at every index of the trend line upper =
\* trend * (1 + multiplier * std_error) and lower = trend * (1 -
\* multiplier * std_error), and both are as long as the trend line.
C15_BandsByMultiplier ==
    IsMainChart =>
        /\ ret.chart.confidence_level \in ConfidenceLevels
        /\ BandsFollow(ret.chart, SpecMultiplier(ret.chart.confidence_level),
                       ret.power_law_results.std_error)

\* C15 witness: a 95% chart of three or more points with a standard error
\* above 0 and a trend line of positive numbers.
C15_Witness ==
    /\ IsMainChart
    /\ ret.chart.confidence_level = "95%"
    /\ Len(ret.chart.power_law_line) >= 3
    /\ Gt(ret.power_law_results.std_error, Num(0))
    /\ \A i \in 1..Len(ret.chart.power_law_line) :
          /\ Gt(ret.chart.power_law_line[i], Num(0))
          /\ IsFinite(ret.chart.power_law_line[i])
          /\ Lt(ret.chart.lower_bound[i], ret.chart.power_law_line[i])
          /\ Gt(ret.chart.upper_bound[i], ret.chart.power_law_line[i])

\* C16: when the fit's std_error is at least 0, lower <= trend <= upper at
\* every index of the chart's trend line, for every confidence level.
\* Stated for frames whose prices are all numbers, where it already fails.
C16_BandsEncloseTrend ==
    (/\ IsMainChart
     /\ \A i \in 1..Len(df) : IsFinite(df[i])
     /\ Ge(ret.power_law_results.std_error, Num(0))) =>
        \A i \in 1..Len(ret.chart.power_law_line) :
            /\ Le(ret.chart.lower_bound[i], ret.chart.power_law_line[i])
            /\ Le(ret.chart.power_law_line[i], ret.chart.upper_bound[i])

IsDurbinWatson == ret.fn = "durbin_watson" /\ ret.residuals.kind = "ndarray"

\* The sum of the squares of the n - 1 differences of neighbours.
SquaredSteps(r) ==
    SumSeq([i \in 1..(Len(r) - 1) |-> Square(Sub(r[i + 1], r[i]))])

\* C18: for a residual array of length n >= 2 whose sum of squares is not
\* 0, calculate_durbin_watson returns the sum of the n - 1 squared
\* differences of neighbours divided by the sum of the n squared
\* residuals.
C18_DurbinWatsonFormula ==
    (/\ IsDurbinWatson
     /\ Len(ret.residuals.data) >= 2
     /\ SumOfSquares(ret.residuals.data) # Num(0)) =>
        ret.value = Div(SquaredSteps(ret.residuals.data),
                        SumSeq([i \in 1..Len(ret.residuals.data) |->
                                   Square(ret.residuals.data[i])]))

\* C18 witness: the residuals 1, 0, -1, whose statistic is (1 + 1) / 2.
C18_Witness ==
    /\ IsDurbinWatson
    /\ ret.residuals.data = <<Num(1), Num(0), Num(-1)>>
    /\ ret.value = Num(1)

\* The residual sequence of the spec's example.
Alternating == <<Num(1), Num(-1), Num(1), Num(-1)>>

\* C19 as stated: the statistic of the residuals 1, -1, 1, -1 is 16/4 = 4.
C19_AlternatingIsFour ==
    (IsDurbinWatson /\ ret.residuals.data = Alternating) => ret.value = Num(4)

\* C19 as amended: the residuals 1, -1, 1, -1 have three differences of
\* neighbours, each of square 4, so the statistic is (4 + 4 + 4) / (1 + 1 +
\* 1 + 1) = 12/4 = 3.
C19_AlternatingIsThree ==
    (IsDurbinWatson /\ ret.residuals.data = Alternating) =>
        /\ Len(Diff(ret.residuals.data)) = 3
        /\ ret.value = Num(3)

\* C19 witness: the statistic of the residuals 1, -1, 1, -1 was computed.
C19_Witness ==
    /\ IsDurbinWatson
    /\ ret.residuals.data = Alternating
    /\ ret.value = Div(Num(12), Num(4))

\* C20: when every residual is 0 the Durbin-Watson statistic shown is the
\* number 0.  Stated for the statistics tab on a valid series.
C20_ZeroResidualsGiveZero ==
    (/\ ret.fn = "render_statistics"
     /\ ret.error = ""
     /\ ValidSeries(df)
     /\ ret.residual_stats.shown
     /\ \A i \in 1..Len(ret.residual_stats.residuals) :
           ret.residual_stats.residuals[i] = Num(0)) =>
        ret.residual_stats.dw_stat = Num(0)

\* ------------------------------------------------------------ C21
IsStatistics == ret.fn = "render_statistics" /\ ret.error = ""

\* The trend of a dict at the i-th row (day i - 1).
PredictedAt(power_law_data, i) ==
    Mul(Exp(power_law_data.intercept), Pow(i, power_law_data.slope))

\* C21: the residuals of the statistics tab are as many as the rows of the
\* frame, in the order of the rows, and the i-th residual is the i-th price
\* minus the trend of the fit's slope and intercept at the i-th row.
C21_ResidualsAlignedWithSeries ==
    IsStatistics =>
        /\ ret.residual_stats.shown
        /\ Len(ret.residual_stats.residuals) = Len(df)
        /\ \A i \in 1..Len(df) :
              ret.residual_stats.residuals[i] =
                  Sub(df[i], PredictedAt(ret.power_law_data, i))

\* Residuals of three positive prices, one of them off the trend.
C21_Witness ==
    /\ IsStatistics
    /\ Len(df) = 3
    /\ AllPositive(df)
    /\ \E i \in 1..3 : /\ IsFinite(ret.residual_stats.residuals[i])
                       /\ ret.residual_stats.residuals[i] # Num(0)

\* ------------------------------------------------------------ C22
IsSession == ret.fn = "session"

\* Two calls of one function with one model type returned the same value,
\* whatever was called in between.
SameCallsSameResults(calls) ==
    \A i, j \in 1..Len(calls) :
        (calls[i].fn = calls[j].fn /\ calls[i].model_type = calls[j].model_type)
            => calls[i].value = calls[j].value

\* C22: in a session of fits on one series, equal calls return equal
\* results and no call leaves anything on the page: all a fit does is
\* return its value.  Stated for series of at least one price, all
\* positive, where it already fails.
C22_FitsArePureAndRepeatable ==
    (IsSession /\ Len(df) >= 1 /\ AllPositive(df)) =>
        /\ SameCallsSameResults(ret.calls)
        /\ ret.screen = <<>>

\* The half of C22 about repeated calls, on every series.
C22_RepeatedCallsAgree == IsSession => SameCallsSameResults(ret.calls)

\* ------------------------------------------------------------ C23
\* C23: no step of the page (the basic fit, the advanced fits, the bands,
\* the predictions, the residuals and the Durbin-Watson statistic are all
\* run by its tabs) changes the frame: its length, order and prices stay
\* as they were fetched.
C23_SeriesNeverChanged == [][df' = df]_vars

\* The main tab has fitted a frame of three rows and built the bands.
C23_Witness ==
    /\ IsMainChart
    /\ Len(df) = 3
    /\ AllPositive(df)
    /\ Len(ret.chart.upper_bound) = 3

\* ------------------------------------------------------------ C24
\* The four views that show one fit.
IsFitView ==
    ret.fn \in {"render_basic", "render_main", "render_predictions", "render_statistics"}

\* The fit the view in ret has made of the frame (the frames are shorter
\* than every time range, so the main tab analyses all of df).
FitOfView ==
    IF ret.fn = "render_basic" THEN calculate_basic_power_law(df)
    ELSE IF ret.fn = "render_main" THEN calculate_advanced_power_law(df, ret.model_type)
    ELSE calculate_advanced_power_law(df, "Linear Regression")

\* What a view shows besides its error message.
Rendered(view) == DOMAIN view \ {"fn", "model_type", "error"}

\* C24: a fit ends with a value, None or a dict, never with an exception;
\* when it is None the view shows an error message and nothing else, no
\* metric, table or chart; and the residuals and the Durbin-Watson
\* statistic of a shown fit are values too.
C24_FailedFitShowsOnlyAnError ==
    IsFitView =>
        /\ FitOfView.kind \in {"None", "dict"}
        /\ FitOfView = None => (ret.error # "" /\ Rendered(ret) = {})
        /\ (ret.fn = "render_statistics" /\ ret.error = "") =>
              /\ calculate_residuals(df, ret.power_law_data).kind \in {"None", "ndarray"}
              /\ ret.residual_stats.shown => Len(ret.residual_stats.dw_stat) = 2

\* The main tab on one positive price with the polynomial model: polyfit
\* raises, the fit is None and the tab shows its message.
C24_Witness ==
    /\ ret.fn = "render_main"
    /\ ret.model_type = "Polynomial"
    /\ Len(df) = 1
    /\ AllPositive(df)
    /\ FitOfView = None
    /\ ret.error = "Unable to calculate power law model"

\* ------------------------------------------------------------ C25
IsSynthetic == ret.fn = "synthetic"

\* exp(a + b) = exp(a) * exp(b) in the arithmetic of Exp, which holds when
\* one of the exponents is a multiple of ln 2.
ExpSplits(a, b) == Exp(Add(a, b)) = Mul(Exp(a), Exp(b))

\* A fit has recovered the curve: slope 0.5, intercept 2.0, r_squared 1.0,
\* the trend value exp(2.0) * n ** 0.5 of the last row and, where that
\* product is the last price, a deviation of 0.
Recovered(n, last_price, slope, intercept, r_squared, trend, deviation) ==
    /\ slope = Q(1, 2)
    /\ intercept = Num(2)
    /\ r_squared = Num(1)
    /\ trend = Mul(Exp(Num(2)), Pow(n, Q(1, 2)))
    /\ ExpSplits(Num(2), Mul(Q(1, 2), Ln(Num(n)))) =>
          (trend = last_price /\ deviation = Num(0))

\* C25: on a series of two or more prices of the curve
\* exp(2.0) * (i + 1) ** 0.5, the basic and the advanced log-log fit
\* return slope 0.5, intercept 2.0 and r_squared 1.0, hence the curve's
\* value at the last row as trend value, which is the last price, and a
\* deviation of 0.
C25_SyntheticCurveRecovered ==
    (IsSynthetic /\ ret.n >= 2) =>
        /\ Recovered(ret.n, ret.prices[ret.n], ret.basic.slope, ret.basic.intercept,
                     ret.basic.r_squared, ret.basic.current_value, ret.basic.deviation)
        /\ Recovered(ret.n, ret.prices[ret.n], ret.advanced.slope,
                     ret.advanced.intercept, ret.advanced.r_squared,
                     ret.advanced.power_law_value, ret.advanced.deviation)

\* Four prices of the curve: the trend value is the last price, 2 exp(2),
\* and the deviation is 0.
C25_Witness ==
    /\ IsSynthetic
    /\ ret.n = 4
    /\ ret.advanced.power_law_value = ret.prices[4]
    /\ ret.prices[4] = Mul(Num(2), Exp(Num(2)))
    /\ ret.advanced.deviation = Num(0)
    /\ ret.basic.deviation = Num(0)

\* ------------------------------------------------------------ C26
\* The last value of a line.
LastOf(line) == line[Len(line)]

\* C26: the trend line the main tab draws ends at the trend value of the
\* fit it shows, for each of its three model types.  Stated for frames of
\* three positive prices, where it already fails.
C26_ChartLineIsFittedCurve ==
    (IsMainChart /\ Len(df) = 3 /\ AllPositive(df)) =>
        LastOf(ret.chart.power_law_line) = ret.power_law_results.power_law_value

\* The same for the log-log model alone, whose curve the chart draws.
C26_ChartLineOfLinearLog ==
    (IsMainChart /\ ret.model_type = "Linear Regression" /\ Len(df) >= 1) =>
        LastOf(ret.chart.power_law_line) = ret.power_law_results.power_law_value

\* ------------------------------------------------------------ C27
IsPredictions == ret.fn = "render_predictions" /\ ret.error = ""

\* C27: for each of the five horizons the future price of the prediction
\* chart is the predicted price of the table's row.  Stated for frames of
\* three positive prices, where it already fails.
C27_ChartMatchesTable ==
    (IsPredictions /\ Len(df) = 3 /\ AllPositive(df)) =>
        \A i \in 1..Len(Timeframes) :
            ret.future_prices[i] = ret.predictions[i].predicted_price

\* ------------------------------------------------------------ C28
\* The entries the basic and the advanced dict have in common, the trend
\* value under one name.
SharedOutputs(value, trend) ==
    [slope |-> value.slope, intercept |-> value.intercept,
     r_squared |-> value.r_squared, current_price |-> value.current_price,
     trend |-> trend, deviation |-> value.deviation]

\* The basic and the advanced result agree: both None, or dicts with the
\* same shared entries.
Agree(basic, advanced) ==
    /\ (basic = None) = (advanced = None)
    /\ basic # None =>
          SharedOutputs(basic, basic.current_value) =
              SharedOutputs(advanced, advanced.power_law_value)

\* C28: on every series calculate_basic_power_law returns what
\* calculate_advanced_power_law returns for 'Linear Regression': None when
\* that is None, else the same slope, intercept, r_squared, current_price,
\* trend value and deviation.
C28_BasicAgreesWithAdvanced ==
    ret.fn = "basic" =>
        Agree(ret.value, calculate_advanced_power_law(df, "Linear Regression"))

\* A basic fit of three positive prices that are not on one curve.
C28_Witness ==
    /\ ret.fn = "basic"
    /\ Len(df) = 3
    /\ AllPositive(df)
    /\ IsFinite(ret.value.deviation)
    /\ ret.value.deviation # Num(0)
    /\ ret.value.current_value =
          calculate_advanced_power_law(df, "Linear Regression").power_law_value

\* ------------------------------------------------------------ C29
\* C29: residuals are on the page only in the statistics tab, and there
\* they are those of the 'Linear Regression' fit of the frame: the dict
\* handed to calculate_residuals is that fit, and the last residual is its
\* current_price minus its power_law_value.
C29_ResidualsOfLinearLogFit ==
    "residual_stats" \in DOMAIN ret =>
        /\ ret.fn = "render_statistics"
        /\ ret.power_law_data = calculate_advanced_power_law(df, "Linear Regression")
        /\ ret.residual_stats.shown
        /\ LastOf(ret.residual_stats.residuals) =
              Sub(ret.power_law_data.current_price, ret.power_law_data.power_law_value)

\* The statistics of three positive prices whose last one is off the
\* trend.
C29_Witness ==
    /\ IsStatistics
    /\ Len(df) = 3
    /\ AllPositive(df)
    /\ LastOf(ret.residual_stats.residuals) # Num(0)
    /\ LastOf(ret.residual_stats.residuals) =
          Sub(df[3], ret.power_law_data.power_law_value)

\* ------------------------------------------------------------ C30
IsPageRun == ret.fn = "main"

\* The views of the advanced analysis.
AdvancedViews ==
    {"render_advanced", "render_main", "compare", "render_predictions",
     "render_statistics"}

====
